---- MODULE Spec2Model ----
(***************************************************************************)
(* Model of bacterial_growth_converter.py: the conversion of a microplate  *)
(* reader grid (wide format) into the long-format CSV, the CSV validation  *)
(* and the command line entry point.                                       *)
(*                                                                         *)
(* Numbers are exact fixed-point integers:                                 *)
(*   a time cell holds minutes in units of 1/1000 minute,                  *)
(*   Time_s is held in units of 0.1 s (the 1 decimal round() keeps),       *)
(*   Time_h is held in units of 0.001 h (3 decimals),                      *)
(*   an OD cell is held in units of 0.00001, the OD column in 0.0001.      *)
(* Strings are sequences of one-character strings.                         *)
(***************************************************************************)
EXTENDS Integers, Sequences, FiniteSets, TLC

VARIABLES pc, argv_len, input_exists, prior_csv, csv, df, well_names,
          time_minutes, output_data, success, validated, exit_code

vars == <<pc, argv_len, input_exists, prior_csv, csv, df, well_names,
          time_minutes, output_data, success, validated, exit_code>>

(***************************************************************************)
(* Bounds of the sampled inputs.                                           *)
(***************************************************************************)
MaxWells == 3
MaxTimes == 3
\* data columns and data rows of a sheet, together
MaxSize == 6
MaxArgv == 4

(***************************************************************************)
(* The fixed layout.                                                       *)
(***************************************************************************)
header_row == 8
data_start_row == 9
time_col == 1
data_col_start == 2

(***************************************************************************)
(* Cells.  NaN is what pandas gives for an empty cell.                     *)
(***************************************************************************)
NaN == [k |-> "nan"]
Txt(s) == [k |-> "str", s |-> s]
Num(v) == [k |-> "num", v |-> v]

notna(cell) == cell.k # "nan"

\* float(x) raises ValueError on a string that is no number
FloatRaises(cell) == cell.k = "str"
Float(cell) == cell.v

\* str(x) of a text cell is the text itself
Str(cell) == cell.s

IsSpace(ch) == ch = " "

RECURSIVE LStrip(_)
LStrip(s) ==
    IF s = <<>> THEN <<>>
    ELSE IF IsSpace(Head(s)) THEN LStrip(Tail(s)) ELSE s

RECURSIVE RStrip(_)
RStrip(s) ==
    IF s = <<>> THEN <<>>
    ELSE IF IsSpace(s[Len(s)]) THEN RStrip(SubSeq(s, 1, Len(s) - 1)) ELSE s

strip(s) == RStrip(LStrip(s))

\* code points of the characters the sampled names use
Ord(ch) ==
    CASE ch = " " -> 32
      [] ch = "0" -> 48
      [] ch = "1" -> 49
      [] ch = "2" -> 50
      [] ch = "A" -> 65

\* Python's < on str: by code point, a proper prefix first
RECURSIVE StrLT(_, _)
StrLT(a, b) ==
    IF b = <<>> THEN FALSE
    ELSE IF a = <<>> THEN TRUE
    ELSE IF Ord(Head(a)) # Ord(Head(b)) THEN Ord(Head(a)) < Ord(Head(b))
    ELSE StrLT(Tail(a), Tail(b))

(***************************************************************************)
(* round(x, n): x = n / d exactly, result in units of the kept decimal.    *)
(***************************************************************************)
RoundHalfEven(n, d) ==
    LET q == n \div d
        r == n % d
    IN  IF 2 * r < d THEN q
        ELSE IF 2 * r > d THEN q + 1
        ELSE IF q % 2 = 0 THEN q ELSE q + 1

\* round(time_min * 60, 1), in 0.1 s
Time_s(m) == RoundHalfEven(m * 60 * 10, 1000)

\* round(time_min / 60, 3), in 0.001 h
TimeHWrong(m) == RoundHalfEven(m * 1000, 6 * 1000)
Time_h(m) == RoundHalfEven(m * 1000, 60 * 1000)

\* round(float(od_val), 4), in 0.0001
OD(v) == RoundHalfEven(v, 10)

(***************************************************************************)
(* The DataFrame read from the spreadsheet: its shape and the cells the    *)
(* program can address (header row from column 2, time column from row 9,  *)
(* the OD block).  Cells elsewhere are never read.                         *)
(***************************************************************************)
NoDf == [nrows |-> -1]

iloc(d, r, c) ==
    IF r = header_row /\ c >= data_col_start THEN d.hdr[c - data_col_start + 1]
    ELSE IF r >= data_start_row /\ c = time_col THEN d.tcol[r - data_start_row + 1]
    ELSE IF r >= data_start_row /\ c >= data_col_start
         THEN d.od[r - data_start_row + 1][c - data_col_start + 1]
    ELSE NaN

\* df.iloc raises IndexError outside the shape
IndexError(d, r, c) == r >= d.nrows \/ c >= d.ncols

(***************************************************************************)
(* Sampled spreadsheets.  A header cell is empty or a well name.  A time   *)
(* cell is a number or unparseable, an OD cell is a number unless it is    *)
(* the grid's one unparseable cell; an unparseable cell is empty or text,  *)
(* by its place.  Every OD number is different, so a value of the output   *)
(* identifies the cell it came from.                                       *)
(***************************************************************************)
HeaderCells == {NaN, Txt(<<"A", "2">>), Txt(<<" ", "A", "1", "0">>)}
TimeVals == {0, 30001, 30002}

BadCell(r, c) == IF (r + c) % 2 = 0 THEN NaN ELSE Txt(<<"x">>)
TimeCells(r) == {BadCell(r, time_col)} \cup {Num(v) : v \in TimeVals}
TimeColumns(t) ==
    {tc \in [1..t -> {NaN, Txt(<<"x">>)} \cup {Num(v) : v \in TimeVals}] :
        \A r \in 1..t : tc[r] \in TimeCells(r)}

OdVal(r, c) == 10000 + 2503 * r + 17 * c
OdBlock(t, w, bad) ==
    [r \in 1..t |-> [c \in 1..w |-> IF <<r, c>> = bad THEN BadCell(r, c)
                                     ELSE Num(OdVal(r, c))]]

SmallGrids ==
    {[nrows |-> nr, ncols |-> nc, hdr |-> <<>>, tcol |-> <<>>, od |-> <<>>] :
        nr \in {0, header_row}, nc \in 0..(data_col_start + 1)}
    \cup
    {[nrows |-> data_start_row + t, ncols |-> nc, hdr |-> <<>>, tcol |-> <<>>,
      od |-> <<>>] : t \in 0..1, nc \in 0..time_col}

Grid(t, w, h, tc, bad) ==
    [nrows |-> data_start_row + t, ncols |-> data_col_start + w,
     hdr |-> h, tcol |-> tc, od |-> OdBlock(t, w, bad)]

(***************************************************************************)
(* convert_bacterial_growth_data                                           *)
(***************************************************************************)
\* lines 64-70: the well names, up to the first empty header cell
RECURSIVE ScanWells(_, _)
ScanWells(d, col_idx) ==
    IF col_idx >= d.ncols THEN <<>>
    ELSE LET well == iloc(d, header_row, col_idx)
         IN  IF notna(well)
             THEN <<strip(Str(well))>> \o ScanWells(d, col_idx + 1)
             ELSE <<>>

WellsRaise(d) ==
    data_col_start < d.ncols /\ IndexError(d, header_row, data_col_start)

\* lines 76-85: the times, up to the first empty or non-numeric cell
RECURSIVE ScanTimes(_, _)
ScanTimes(d, row_idx) ==
    IF row_idx >= d.nrows THEN <<>>
    ELSE LET time_val == iloc(d, row_idx, time_col)
         IN  IF notna(time_val) /\ ~FloatRaises(time_val)
             THEN <<Float(time_val)>> \o ScanTimes(d, row_idx + 1)
             ELSE <<>>

TimesRaise(d) ==
    data_start_row < d.nrows /\ IndexError(d, data_start_row, time_col)

\* the scan with continue in the place of break
RECURSIVE ScanTimesSkipping(_, _)
ScanTimesSkipping(d, row_idx) ==
    IF row_idx >= d.nrows THEN <<>>
    ELSE LET time_val == iloc(d, row_idx, time_col)
         IN  IF notna(time_val) /\ ~FloatRaises(time_val)
             THEN <<Float(time_val)>> \o ScanTimesSkipping(d, row_idx + 1)
             ELSE ScanTimesSkipping(d, row_idx + 1)

ExtractTimesSkipping(d) == ScanTimesSkipping(d, data_start_row)
ExtractTimes(d) == ScanTimes(d, data_start_row)
ExtractWells(d) == ScanWells(d, data_col_start)

\* lines 103-112: the OD values of one column, unparseable cells skipped
RECURSIVE ScanOD(_, _, _, _)
ScanOD(d, col_idx, row_idx, n) ==
    IF row_idx >= n THEN <<>>
    ELSE LET actual_row == data_start_row + row_idx
             rest == ScanOD(d, col_idx, row_idx + 1, n)
         IN  IF actual_row < d.nrows
             THEN LET od_val == iloc(d, actual_row, col_idx)
                  IN  IF notna(od_val) /\ ~FloatRaises(od_val)
                      THEN <<Float(od_val)>> \o rest
                      ELSE rest
             ELSE rest

\* line 115
AcceptAtMost(od_values, times) == Len(od_values) <= Len(times)
AcceptAny(od_values, times) == Len(od_values) >= 1
Accept(od_values, times) == Len(od_values) = Len(times)

\* zip(time_minutes, od_values)
Min(a, b) == IF a < b THEN a ELSE b

\* lines 116-124: the rows of one accepted well
WellRowsShort(well_name, times, od_values) ==
    [i \in 1..(Min(Len(times), Len(od_values)) - 1) |->
        [Well |-> well_name, Time_s |-> Time_s(times[i]),
         Time_h |-> Time_h(times[i]), OD |-> OD(od_values[i])]]
WellRowsFirstTime(well_name, times, od_values) ==
    [i \in 1..Min(Len(times), Len(od_values)) |->
        [Well |-> well_name, Time_s |-> Time_s(times[1]),
         Time_h |-> Time_h(times[1]), OD |-> OD(od_values[i])]]
WellRows(well_name, times, od_values) ==
    [i \in 1..Min(Len(times), Len(od_values)) |->
        [Well |-> well_name, Time_s |-> Time_s(times[i]),
         Time_h |-> Time_h(times[i]), OD |-> OD(od_values[i])]]

\* lines 96-124: the loop over the wells, in header order
RECURSIVE ExtractOD(_, _, _, _)
ExtractOD(d, wells, times, well_idx) ==
    IF well_idx >= Len(wells) THEN <<>>
    ELSE LET col_idx == data_col_start + well_idx
         IN  IF col_idx >= d.ncols THEN <<>>
             ELSE LET od_values == ScanOD(d, col_idx, 0, Len(times))
                      rest == ExtractOD(d, wells, times, well_idx + 1)
                  IN  IF Accept(od_values, times)
                      THEN WellRows(wells[well_idx + 1], times, od_values) \o rest
                      ELSE rest

\* line 129
NeverEmpty(rows) == FALSE
EmptyResult(rows) == rows = <<>>

\* line 136: the order of sort_values(['Well', 'Time_s'])
RowLEWellOnly(a, b) == ~StrLT(b.Well, a.Well)
RowLE(a, b) ==
    \/ StrLT(a.Well, b.Well)
    \/ a.Well = b.Well /\ a.Time_s <= b.Time_s

\* a stable sort: a row goes behind the rows that are not greater
RECURSIVE Insert(_, _)
Insert(row, sorted) ==
    IF sorted = <<>> THEN <<row>>
    ELSE IF RowLE(Head(sorted), row)
         THEN <<Head(sorted)>> \o Insert(row, Tail(sorted))
         ELSE <<row>> \o sorted

RECURSIVE sort_values(_)
sort_values(rows) ==
    IF rows = <<>> THEN <<>>
    ELSE Insert(rows[Len(rows)], sort_values(SubSeq(rows, 1, Len(rows) - 1)))

\* line 154: the file to_csv writes
Columns == <<"Well", "Time_s", "Time_h", "OD">>
to_csv(rows) == [header |-> Columns, rows |-> rows]

Absent == [header |-> <<>>, rows |-> <<>>, absent |-> TRUE]
OldFile == [header |-> <<"old">>, rows |-> <<>>]

\* lines 129-154 on the rows extracted: the file afterwards
SaveBeforeCheck(rows, file) == to_csv(sort_values(rows))
Save(rows, file) ==
    IF EmptyResult(rows) THEN file ELSE to_csv(sort_values(rows))

(***************************************************************************)
(* validate_csv_output                                                     *)
(***************************************************************************)
InSeq(x, s) == \E i \in 1..Len(s) : s[i] = x

\* is_numeric_dtype of a column read back: numbers in every row, and a row
IsNumeric(file, col) ==
    /\ file.rows # <<>>
    /\ \A i \in 1..Len(file.rows) : file.rows[i][col] \in Int

validate_csv_output(file, readable) ==
    /\ readable
    /\ \A i \in 1..Len(Columns) : InSeq(Columns[i], file.header)
    /\ IsNumeric(file, "Time_s")
    /\ IsNumeric(file, "Time_h")
    /\ IsNumeric(file, "OD")

(***************************************************************************)
(* main                                                                    *)
(***************************************************************************)
Init ==
    /\ pc = "main"
    /\ argv_len \in 1..MaxArgv
    /\ input_exists \in BOOLEAN
    /\ prior_csv \in {Absent, OldFile}
    /\ csv = prior_csv
    /\ df = NoDf
    /\ well_names = <<>>
    /\ time_minutes = <<>>
    /\ output_data = <<>>
    /\ success = FALSE
    /\ validated = FALSE
    /\ exit_code = -1

Locals == <<df, well_names, time_minutes, output_data>>
Inputs == <<argv_len, input_exists, prior_csv>>

DropLocals ==
    /\ df' = NoDf
    /\ well_names' = <<>>
    /\ time_minutes' = <<>>
    /\ output_data' = <<>>

\* lines 234-244
Usage ==
    /\ pc = "main"
    /\ argv_len # 3
    /\ pc' = "exit"
    /\ exit_code' = 1
    /\ UNCHANGED <<Inputs, Locals, csv, success, validated>>

\* lines 217-219
InputNotFound ==
    /\ pc = "main"
    /\ argv_len = 3
    /\ ~input_exists
    /\ pc' = "exit"
    /\ exit_code' = 1
    /\ UNCHANGED <<Inputs, Locals, csv, success, validated>>

\* line 222 with line 49 raising: the file exists but cannot be read
ConvertUnreadable ==
    /\ pc = "main"
    /\ argv_len = 3
    /\ input_exists
    /\ pc' = "converted"
    /\ success' = FALSE
    /\ UNCHANGED <<Inputs, Locals, csv, validated, exit_code>>

\* lines 49-161 on the spreadsheet d that read_excel returns
Convert(d) ==
    /\ df' = d
    /\ well_names' = IF WellsRaise(d) THEN <<>> ELSE ExtractWells(d)
    /\ time_minutes' = IF WellsRaise(d) \/ TimesRaise(d) THEN <<>>
                       ELSE ExtractTimes(d)
    /\ output_data' = IF WellsRaise(d) \/ TimesRaise(d) THEN <<>>
                      ELSE ExtractOD(d, well_names', time_minutes', 0)
    /\ csv' = Save(output_data', csv)
    /\ success' = ~EmptyResult(output_data')

\* line 222: the call returns True, or False from the except clause
ConvertGrid ==
    /\ pc = "main"
    /\ argv_len = 3
    /\ input_exists
    /\ \E t \in 0..MaxTimes, w \in 0..MaxWells :
        /\ t + w <= MaxSize
        /\ \E h \in [1..w -> HeaderCells], tc \in TimeColumns(t),
           bad \in {<<0, 0>>} \cup ((1..t) \X (1..w)) :
            Convert(Grid(t, w, h, tc, bad))
    /\ pc' = "converted"
    /\ UNCHANGED <<Inputs, validated, exit_code>>

\* line 222 on a sheet too small to hold the layout
ConvertSmallGrid ==
    /\ pc = "main"
    /\ argv_len = 3
    /\ input_exists
    /\ \E d \in SmallGrids : Convert(d)
    /\ pc' = "converted"
    /\ UNCHANGED <<Inputs, validated, exit_code>>

\* lines 230-232
ConversionFailed ==
    /\ pc = "converted"
    /\ ~success
    /\ pc' = "exit"
    /\ exit_code' = 1
    /\ DropLocals
    /\ UNCHANGED <<Inputs, csv, success, validated>>

\* lines 224-226
Validate ==
    /\ pc = "converted"
    /\ success
    /\ \E readable \in BOOLEAN :
        validated' = validate_csv_output(csv, readable)
    /\ pc' = "validated"
    /\ DropLocals
    /\ UNCHANGED <<Inputs, csv, success, exit_code>>

\* lines 226-229 and the end of main: the interpreter exits with 0
ExitOnWarning(ok) == IF ok THEN 0 ELSE 1
ExitAfterValidation(ok) == 0

Finish ==
    /\ pc = "validated"
    /\ pc' = "exit"
    /\ exit_code' = ExitAfterValidation(validated)
    /\ UNCHANGED <<Inputs, Locals, csv, success, validated>>

Next ==
    \/ Usage
    \/ InputNotFound
    \/ ConvertUnreadable
    \/ ConvertGrid
    \/ ConvertSmallGrid
    \/ ConversionFailed
    \/ Validate
    \/ Finish

Spec == Init /\ [][Next]_vars

(***************************************************************************)
(* What the properties speak of, computed from the sheet by position       *)
(* rather than by the scans of the program.                                *)
(***************************************************************************)
\* the call has returned and the sheet it read is at hand
Returned == pc = "converted" /\ df # NoDf

IsNum(cell) == cell.k = "num"

\* W: the header cells before the first empty one
WellCount ==
    CHOOSE n \in 0..Len(df.hdr) :
        /\ \A i \in 1..n : df.hdr[i] # NaN
        /\ n = Len(df.hdr) \/ df.hdr[n + 1] = NaN

\* T: the time cells before the first empty or non-numeric one
TimeCount ==
    CHOOSE n \in 0..Len(df.tcol) :
        /\ \A i \in 1..n : IsNum(df.tcol[i])
        /\ n = Len(df.tcol) \/ ~IsNum(df.tcol[n + 1])

\* the well in header position i has a parseable OD in each of the T rows
Complete(i) == \A k \in 1..TimeCount : IsNum(df.od[k][i])
CompleteWells == {i \in 1..WellCount : Complete(i)}

\* the rounded OD values of the parseable cells of column i, any row
ValuesOf(i) == {OD(df.od[k][i].v) : k \in {r \in 1..Len(df.tcol) : IsNum(df.od[r][i])}}

Abs(x) == IF x < 0 THEN -x ELSE x

\* lexicographic order of strings by code point, stated by the first difference
LexLess(a, b) ==
    \E i \in 1..(Min(Len(a), Len(b)) + 1) :
        /\ \A j \in 1..(i - 1) : a[j] = b[j]
        /\ \/ i > Len(a) /\ i <= Len(b)
           \/ i <= Len(a) /\ i <= Len(b) /\ Ord(a[i]) < Ord(b[i])

Count(s, x) == Cardinality({i \in 1..Len(s) : s[i] = x})
Permutation(s, t) ==
    /\ Len(s) = Len(t)
    /\ \A i \in 1..Len(s) : Count(s, s[i]) = Count(t, s[i])

\* C1: a sheet whose header names W wells with no gap, whose time column
\* holds T parseable times with no gap and whose W columns are all complete
\* gives exactly W x T rows: in the rows extracted, and (W x T > 0) in the
\* file of a successful call.
C1_RowCount ==
    (/\ Returned
     /\ WellCount = Len(df.hdr)
     /\ TimeCount = Len(df.tcol)
     /\ \A i \in 1..WellCount : Complete(i))
    => /\ Len(output_data) = WellCount * TimeCount
       /\ WellCount * TimeCount > 0 =>
            success /\ Len(csv.rows) = WellCount * TimeCount

C1_Witness ==
    /\ Returned
    /\ WellCount = Len(df.hdr) /\ WellCount >= 2
    /\ TimeCount = Len(df.tcol) /\ TimeCount >= 2
    /\ \A i \in 1..WellCount : Complete(i)
    /\ success
    /\ Len(csv.rows) = WellCount * TimeCount

\* C2: a well with fewer than T parseable OD values puts no row in the
\* output (no output row carries a value of its column), and when another
\* well is complete the call succeeds and writes that well's T rows.
C2_PartialWellExcluded ==
    Returned =>
        \A i \in 1..WellCount : ~Complete(i) =>
            /\ \A p \in 1..Len(output_data) : output_data[p].OD \notin ValuesOf(i)
            /\ \A p \in 1..Len(csv.rows) : csv.rows[p].OD \notin ValuesOf(i)
            /\ CompleteWells # {} =>
                /\ success
                /\ csv.header = Columns
                /\ Len(csv.rows) = Cardinality(CompleteWells) * TimeCount

C2_Witness ==
    /\ Returned
    /\ \E i \in 1..WellCount : ~Complete(i) /\ ValuesOf(i) # {}
    /\ Cardinality(CompleteWells) >= 2
    /\ success

\* C3: the rows of the file of a successful call are non-decreasing by
\* (Well as a string, then Time_s as a number).
C3_Sorted ==
    (Returned /\ success) =>
        \A p \in 1..(Len(csv.rows) - 1) :
            LET r1 == csv.rows[p]
                r2 == csv.rows[p + 1]
            IN  \/ LexLess(r1.Well, r2.Well)
                \/ r1.Well = r2.Well /\ r1.Time_s <= r2.Time_s

C3_Witness ==
    /\ Returned /\ success
    /\ \E p \in 1..(Len(output_data) - 1) :
        LexLess(output_data[p + 1].Well, output_data[p].Well)
    /\ \E p \in 1..(Len(output_data) - 1) :
        /\ output_data[p + 1].Well = output_data[p].Well
        /\ output_data[p + 1].Time_s < output_data[p].Time_s

PairsDistinct(rows) ==
    \A p, q \in 1..Len(rows) :
        p # q => <<rows[p].Well, rows[p].Time_s>> # <<rows[q].Well, rows[q].Time_s>>

Distinct(s) == \A p, q \in 1..Len(s) : p # q => s[p] # s[q]

\* C4 as stated: when the extracted times are pairwise distinct, no two rows
\* of the file share (Well, Time_s).
C4_Original ==
    (Returned /\ success /\ Distinct(time_minutes)) => PairsDistinct(csv.rows)

\* C4: when the extracted well names (trimmed) are pairwise distinct and the
\* extracted times are pairwise distinct after the conversion to seconds
\* rounded to 1 decimal, no two rows of the file share (Well, Time_s).
C4_DistinctPairs ==
    (/\ Returned /\ success
     /\ Distinct(well_names)
     /\ Distinct([i \in 1..Len(time_minutes) |-> Time_s(time_minutes[i])]))
    => PairsDistinct(csv.rows)

C4_Witness ==
    /\ Returned /\ success
    /\ Distinct(well_names)
    /\ Distinct([i \in 1..Len(time_minutes) |-> Time_s(time_minutes[i])])
    /\ Cardinality(CompleteWells) >= 2
    /\ TimeCount >= 2
    /\ PairsDistinct(csv.rows)

\* C5: a sheet with no parseable time, no well name or no complete well
\* gives the failure result, and a success never comes with an empty output.
C5_EmptyFails ==
    Returned =>
        /\ (WellCount = 0 \/ TimeCount = 0 \/ CompleteWells = {}) => ~success
        /\ success => output_data # <<>> /\ csv.rows # <<>>

C5_Witness ==
    /\ Returned
    /\ WellCount >= 1 /\ TimeCount >= 1
    /\ CompleteWells = {}
    /\ ~success

\* C6: main exits with 1 when the argument count is not two, when the input
\* path does not exist (and then nothing is parsed or written) or when the
\* conversion fails, and with 0 whenever the conversion succeeds, whatever
\* the validation says; after the conversion the file is not touched.
C6_ExitCodes ==
    /\ [](pc = "exit" =>
            exit_code = IF argv_len # 3 \/ ~input_exists \/ ~success THEN 1 ELSE 0)
    /\ [](~(argv_len = 3 /\ input_exists) =>
            /\ pc \in {"main", "exit"}
            /\ df = NoDf /\ ~success /\ csv = prior_csv)
    /\ [][(pc \in {"converted", "validated"}) => (csv' = csv)]_vars

C6_Witness ==
    /\ pc = "exit"
    /\ success
    /\ ~validated
    /\ csv.header = Columns
    /\ exit_code = 0

\* C7: the row made from a time of m minutes has Time_s within 0.1 of
\* m x 60 and Time_h within 0.001 of Time_s / 3600.
C7_Units ==
    (Returned /\ success) =>
        \A p \in 1..Len(output_data) :
            LET m == time_minutes[((p - 1) % Len(time_minutes)) + 1]
                row == output_data[p]
            IN  /\ Abs(10 * row.Time_s - 6 * m) <= 10
                /\ Abs(36 * row.Time_h - row.Time_s) <= 36

C7_Witness ==
    /\ Returned /\ success
    /\ \E p \in 1..Len(output_data) :
        /\ output_data[p].Time_s > 0
        /\ 10 * output_data[p].Time_s # 6 * time_minutes[((p - 1) % Len(time_minutes)) + 1]

\* C8: the well list is the header cells before the first empty one and the
\* time list the time cells before the first empty or non-numeric one; no
\* output row comes from a column or a row behind the gap, and the call
\* succeeds on a complete well before it.
C8_Prefix ==
    Returned =>
        /\ Len(well_names) = WellCount
        /\ \A i \in 1..WellCount : well_names[i] = strip(df.hdr[i].s)
        /\ Len(time_minutes) = TimeCount
        /\ \A k \in 1..TimeCount : time_minutes[k] = df.tcol[k].v
        /\ \A p \in 1..Len(csv.rows) :
            \E i \in 1..WellCount, k \in 1..TimeCount :
                /\ IsNum(df.od[k][i])
                /\ csv.rows[p].OD = OD(df.od[k][i].v)
                /\ csv.rows[p].Time_s = Time_s(df.tcol[k].v)
        /\ (CompleteWells # {} /\ TimeCount >= 1) => success

C8_Witness ==
    /\ Returned /\ success
    /\ WellCount + 1 < Len(df.hdr) /\ df.hdr[WellCount + 2] # NaN
    /\ TimeCount + 1 < Len(df.tcol) /\ IsNum(df.tcol[TimeCount + 2])
    /\ \A k \in 1..Len(df.tcol) : IsNum(df.od[k][WellCount + 2])

\* position of the accepted well i among the accepted wells
Rank(i) == Cardinality({j \in CompleteWells : j < i})

\* C9: every row carries the OD of its own cell: the rows extracted are, for
\* the accepted wells in header order and each time k in order, the name of
\* header position i, the time of row 9 + k and the OD of cell
\* (9 + k, 2 + i) rounded to 4 decimals; the file holds the same rows.
C9_Aligned ==
    (Returned /\ success) =>
        /\ Len(output_data) = Cardinality(CompleteWells) * TimeCount
        /\ \A i \in CompleteWells : \A k \in 1..TimeCount :
            output_data[Rank(i) * TimeCount + k] =
                [Well |-> well_names[i],
                 Time_s |-> Time_s(df.tcol[k].v),
                 Time_h |-> Time_h(df.tcol[k].v),
                 OD |-> OD(df.od[k][i].v)]
        /\ Permutation(output_data, csv.rows)

C9_Witness ==
    /\ Returned /\ success
    /\ \E i \in 1..WellCount :
        /\ ~Complete(i)
        /\ \E k \in 2..TimeCount : ~IsNum(df.od[k - 1][i]) /\ IsNum(df.od[k][i])

\* C10: a call that fails (sheet unreadable, sheet too small, no row
\* extracted) leaves the output file as it was, absent or with its old
\* content; a call that succeeds leaves the sorted rows in it.
C10_WriteOnSuccess ==
    pc = "converted" =>
        /\ ~success =>
            /\ df = NoDf \/ WellsRaise(df) \/ TimesRaise(df) \/ output_data = <<>>
            /\ csv = prior_csv
        /\ success => csv = [header |-> Columns, rows |-> sort_values(output_data)]

C10_Witness ==
    /\ Returned
    /\ ~success
    /\ WellCount >= 1 /\ TimeCount >= 1
    /\ prior_csv = OldFile
    /\ csv = OldFile

====
